---- MODULE Spec2Model ----
(***************************************************************************)
(* A model of nylon.h: the FfiBuffer descriptor, the synchronous event     *)
(* callback wrapper call_event_method, and the FfiBufferPool recycler      *)
(* (ffi_buffer_pool_init / _get / _return / _free), together with the      *)
(* callers (producer threads) that allocate byte storage, hand descriptors *)
(* to the pool, take them back and dispatch them to a handler.             *)
(***************************************************************************)
EXTENDS Integers, Sequences, FiniteSets, TLC

\* ------------------------------------------------------------------ bounds
MaxCap == 2          \* largest initial_capacity given to ffi_buffer_pool_init
MaxPtr == 3          \* number of distinct byte-storage addresses
MaxStore == 1        \* largest byte storage a producer allocates
MaxHandles == 3      \* descriptor variables the pool's caller has
MaxHigh == 1        \* largest high 32-bit word of a byte count a producer has

Threads == {1, 2}
Handles == 1..MaxHandles
Ptrs == 1..MaxPtr
SlotIdx == 0..(MaxCap - 1)
Methods == {3}
Phases == {"START", "DATA", "END", "ERROR"}

\* The NULL pointer, as a slot index returned by ffi_buffer_pool_get.
NULL == -1

\* ------------------------------------------------------------- descriptors
\* typedef struct { const unsigned char *ptr; uint32_t len; uint32_t capacity; }
FfiBuffer(ptr, len, capacity) ==
    [ptr |-> ptr, len |-> len, capacity |-> capacity]

\* A size_t / uint64 quantity, as its high and low 32-bit words: the value is
\* hi * 2^32 + lo.
Size64(hi, lo) == [hi |-> hi, lo |-> lo]

\* The conversion a size_t undergoes when it is stored in a uint32_t field
\* (FfiBuffer.len, FfiBuffer.capacity): the low 32 bits are kept.
ToUint32(sz) == sz.lo

\* a <= b for two such quantities.
Le64(a, b) == a.hi < b.hi \/ (a.hi = b.hi /\ a.lo <= b.lo)

\* Contents of an array element that malloc returned and nobody wrote yet.
Indeterminate == [ptr |-> 0, len |-> 0, capacity |-> 0]

\* A producer's descriptor variable: nothing, an FfiBuffer of its own
\* (kind "local"), or an FfiBuffer* into the pool's array (kind "ref").
NoHandle == [kind |-> "none", buf |-> Indeterminate, idx |-> NULL]
LocalHandle(b) == [kind |-> "local", buf |-> b, idx |-> NULL]
RefHandle(i) == [kind |-> "ref", buf |-> Indeterminate, idx |-> i]

VARIABLES
    pool,      \* the FfiBufferPool: handle state, buffers array, count, capacity
    heap,      \* byte storages currently allocated
    mem,       \* contents of each byte storage
    handles,   \* handles[t][h]: the descriptor variables of thread t
    pc,        \* pc[t]: where thread t is inside a dispatch
    frame,     \* frame[t]: the call_event_method activation of thread t
    last,      \* the last pool call made, its argument and what it returned
               \* (for a release: the array index it stored to, or NULL)
    run,       \* the releases into an empty pool and the acquires after them
    dropped,   \* storage whose descriptor a release on a full pool discarded
    sizes      \* sizes[p]: the byte count (a size_t) storage p was allocated with

vars == <<pool, heap, mem, handles, pc, frame, last, run, dropped, sizes>>

\* ------------------------------------------------------------ pool (code)

\* The pool before ffi_buffer_pool_init has run.
NoPool ==
    [handle |-> "uninit", buffers |-> "NULL",
     slots |-> [i \in SlotIdx |-> Indeterminate], count |-> 0, capacity |-> 0]

\* ffi_buffer_pool_init: poolOk / bufOk are the outcomes of the two mallocs.
ffi_buffer_pool_init(initial_capacity, poolOk, bufOk) ==
    IF poolOk
    THEN [handle |-> "live",
          buffers |-> IF bufOk THEN "alloc" ELSE "NULL",
          slots |-> [i \in SlotIdx |-> Indeterminate],
          count |-> 0,
          capacity |-> initial_capacity]
    ELSE [NoPool EXCEPT !.handle = "NULL"]

\* Mutant: the oldest held slot is handed out instead of the newest.
ffi_buffer_pool_get_fifo(p) ==
    IF p.count > 0
    THEN [pool |-> [p EXCEPT !.count = p.count - 1], ret |-> 0]
    ELSE [pool |-> p, ret |-> NULL]

\* Mutant: an empty pool hands out its first array element.
ffi_buffer_pool_get_stale(p) ==
    IF p.count > 0
    THEN [pool |-> [p EXCEPT !.count = p.count - 1], ret |-> p.count - 1]
    ELSE [pool |-> p, ret |-> 0]

\* Mutant: the newest held slot is handed out but stays counted.
ffi_buffer_pool_get_peek(p) ==
    IF p.count > 0
    THEN [pool |-> p, ret |-> p.count - 1]
    ELSE [pool |-> p, ret |-> NULL]

\* ffi_buffer_pool_get: the new pool and the returned FfiBuffer*, which is
\* the address of an element of the pool's own array (its index), or NULL.
ffi_buffer_pool_get(p) ==
    IF p.count > 0
    THEN [pool |-> [p EXCEPT !.count = p.count - 1], ret |-> p.count - 1]
    ELSE [pool |-> p, ret |-> NULL]

\* Mutant: the capacity test is off by one.
ffi_buffer_pool_return_offbyone(p, b) ==
    IF p.count <= p.capacity
    THEN [p EXCEPT !.slots[p.count] = b, !.count = p.count + 1]
    ELSE p

\* Mutant: the descriptor is stored without the capacity test.
ffi_buffer_pool_return_unguarded(p, b) ==
    [p EXCEPT !.slots[p.count] = b, !.count = p.count + 1]

\* ffi_buffer_pool_return: b is *buffer, read when the call is made.
ffi_buffer_pool_return(p, b) ==
    IF p.count < p.capacity
    THEN [p EXCEPT !.slots[p.count] = b, !.count = p.count + 1]
    ELSE p

\* Mutant: the pool record is freed, the array is not.
ffi_buffer_pool_free_leak(p) ==
    IF p.handle # "NULL"
    THEN [p EXCEPT !.handle = "freed"]
    ELSE p

\* ffi_buffer_pool_free: frees the array and the pool record, nothing else.
ffi_buffer_pool_free(p) ==
    IF p.handle # "NULL"
    THEN [p EXCEPT !.handle = "freed",
                   !.buffers = IF p.buffers = "alloc" THEN "freed" ELSE p.buffers]
    ELSE p

\* --------------------------------------------------------- dispatch (code)

\* Mutant: the wrapper returns without calling the handler.
call_event_method_nocall(session_id, method, data) == << >>

\* Mutant: the wrapper hands the handler a copy of the descriptor.
call_event_method_copy(session_id, method, data) ==
    << [session_id |-> session_id, method |-> method,
        data |-> [kind |-> "local",
                  buf |-> IF data.kind = "local" THEN data.buf
                          ELSE pool.slots[data.idx],
                  idx |-> NULL]] >>

\* call_event_method: the handler invocations the call performs, in order.
call_event_method(session_id, method, data) ==
    << [session_id |-> session_id, method |-> method, data |-> data] >>

\* ------------------------------------------------------------------ helpers

\* What a descriptor variable denotes now: a local FfiBuffer is its own
\* value, an FfiBuffer* from the pool reads the pool's array element.
Deref(hd) == IF hd.kind = "local" THEN hd.buf ELSE pool.slots[hd.idx]

\* The bytes a reader sees at b.ptr for b.len bytes.
Bytes(b) == [i \in 1..b.len |-> mem[b.ptr][i]]

\* The descriptor variable a thread uses next: its first unused one (0 when
\* it has none left).
FreeHandle(t) ==
    IF \E h \in Handles : handles[t][h].kind = "none"
    THEN CHOOSE h \in Handles :
            /\ handles[t][h].kind = "none"
            /\ \A g \in Handles : g < h => handles[t][g].kind # "none"
    ELSE 0

NoFrame == [calls |-> << >>, dispatched |-> 0, invoked |-> 0, returned |-> 0,
            supplied |-> << >>, observed |-> << >>]

NoCall == [op |-> "none", val |-> Indeterminate, ret |-> NULL]

\* The run of pool calls the LIFO law speaks of: rel are the descriptors
\* released, in order, since the pool held nothing, got the descriptors the
\* acquires after them returned (Indeterminate for NULL).
NoRun == [open |-> FALSE, rel |-> << >>, got |-> << >>]
NewRun == [open |-> TRUE, rel |-> << >>, got |-> << >>]

\* p is the pool before the call, b the descriptor released.
RunAfterReturn(r, p, b) ==
    IF p.count = 0
    THEN IF p.capacity > 0 THEN [NewRun EXCEPT !.rel = << b >>] ELSE NewRun
    ELSE IF r.open /\ r.got = << >> /\ Len(r.rel) < p.capacity
         THEN [r EXCEPT !.rel = Append(@, b)]
         ELSE NoRun

\* p is the pool before the call, v the descriptor acquired.
RunAfterGet(r, p, v) ==
    IF r.open /\ Len(r.got) <= Len(r.rel)
    THEN [r EXCEPT !.got = Append(@, v)]
    ELSE IF p.count = 0 THEN [NewRun EXCEPT !.got = << v >>] ELSE NoRun

Init ==
    /\ pool = NoPool
    /\ heap = {}
    /\ mem = [p \in Ptrs |-> << >>]
    /\ handles = [t \in Threads |-> [h \in Handles |-> NoHandle]]
    /\ pc = [t \in Threads |-> "idle"]
    /\ frame = [t \in Threads |-> NoFrame]
    /\ last = NoCall
    /\ run = NoRun
    /\ dropped = {}
    /\ sizes = [p \in Ptrs |-> Size64(0, 0)]

\* ------------------------------------------------------------------ actions

\* pool = ffi_buffer_pool_init(n), with either malloc failing or not.
PoolInit(n, poolOk, bufOk) ==
    /\ pool.handle = "uninit"
    /\ pool' = ffi_buffer_pool_init(n, poolOk, bufOk)
    /\ last' = [NoCall EXCEPT !.op = "init", !.ret = n]
    /\ run' = IF poolOk THEN NewRun ELSE NoRun
    /\ UNCHANGED <<heap, mem, handles, pc, frame, dropped, sizes>>

\* A producer allocates byte storage itself, writes it and describes it.
Alloc(t, h, cap, len, seed) ==
    /\ pc[t] = "idle"
    /\ h = FreeHandle(t)
    /\ \E p \in Ptrs :
        /\ p \notin heap
        /\ \A q \in Ptrs : q < p => q \in heap
        /\ heap' = heap \cup {p}
        /\ mem' = [mem EXCEPT ![p] = [i \in 1..cap |-> (seed + i - 1) % 256]]
        /\ handles' = [handles EXCEPT ![t][h] = LocalHandle(
                FfiBuffer(p, ToUint32(Size64(0, len)), ToUint32(Size64(0, cap))))]
        /\ sizes' = [sizes EXCEPT ![p] = Size64(0, cap)]
    /\ last' = NoCall
    /\ UNCHANGED <<pool, pc, frame, run, dropped>>

\* A producer describes storage of cap bytes holding len bytes, both size_t
\* quantities that may exceed 32 bits, in an FfiBuffer. Of the storage's
\* contents the first MaxStore bytes are kept.
AllocWide(t, h, cap, len, seed) ==
    /\ pc[t] = "idle"
    /\ h = FreeHandle(t)
    /\ Le64(len, cap)
    /\ \E p \in Ptrs :
        /\ p \notin heap
        /\ \A q \in Ptrs : q < p => q \in heap
        /\ heap' = heap \cup {p}
        /\ mem' = [mem EXCEPT ![p] = [i \in 1..MaxStore |-> (seed + i - 1) % 256]]
        /\ handles' = [handles EXCEPT ![t][h] = LocalHandle(
                FfiBuffer(p, ToUint32(len), ToUint32(cap)))]
        /\ sizes' = [sizes EXCEPT ![p] = cap]
    /\ last' = NoCall
    /\ UNCHANGED <<pool, pc, frame, run, dropped>>

\* p = ffi_buffer_pool_get(pool)
Get(t, h) ==
    /\ pc[t] = "idle"
    /\ pool.handle = "live"
    /\ h = FreeHandle(t)
    /\ LET r == ffi_buffer_pool_get(pool)
           v == IF r.ret = NULL THEN Indeterminate ELSE r.pool.slots[r.ret]
       IN /\ pool' = r.pool
          /\ handles' = [handles EXCEPT ![t][h] =
                            IF r.ret = NULL THEN NoHandle ELSE RefHandle(r.ret)]
          /\ last' = [op |-> "get", val |-> v, ret |-> r.ret]
          /\ run' = RunAfterGet(run, pool, v)
    /\ UNCHANGED <<heap, mem, pc, frame, dropped, sizes>>

\* ffi_buffer_pool_return(pool, p): the caller gives the descriptor up.
\* With a slot array that was never allocated (buffers NULL) the store goes
\* through a null pointer, which is undefined: the process traps, or the
\* store lands at address 0 and overwrites whatever lives there. Either way
\* the pool is not followed any further.
Return(t, h) ==
    /\ pc[t] = "idle"
    /\ pool.handle = "live"
    /\ handles[t][h].kind # "none"
    /\ LET b == Deref(handles[t][h])
       IN /\ IF pool.buffers = "NULL" /\ pool.count < pool.capacity
             THEN /\ \E outcome \in {"trapped", "clobbered"} :
                        pool' = [pool EXCEPT !.handle = outcome]
                  /\ run' = NoRun
             ELSE /\ pool' = ffi_buffer_pool_return(pool, b)
                  /\ run' = RunAfterReturn(run, pool, b)
          /\ last' = [op |-> "return", val |-> b,
                      ret |-> IF pool.count < pool.capacity
                              THEN pool.count ELSE NULL]
          /\ dropped' = IF pool.count < pool.capacity
                        THEN dropped ELSE dropped \cup {b.ptr}
    /\ handles' = [handles EXCEPT ![t][h] = NoHandle]
    /\ UNCHANGED <<heap, mem, pc, frame, sizes>>

\* ffi_buffer_pool_free(pool)
Destroy ==
    /\ pool.handle \in {"live", "NULL"}
    /\ \A t \in Threads : pc[t] = "idle"
    /\ pool' = ffi_buffer_pool_free(pool)
    /\ last' = [NoCall EXCEPT !.op = "free"]
    /\ run' = NoRun
    /\ UNCHANGED <<heap, mem, handles, pc, frame, dropped, sizes>>

\* A producer calls call_event_method(cb, sid, m, &descriptor).
DispatchCall(t, h, sid, m, ph) ==
    /\ pc[t] = "idle"
    /\ handles[t][h].kind # "none"
    /\ handles[t][h].kind = "ref" => pool.handle = "live"
    /\ pc' = [pc EXCEPT ![t] = "call"]
    /\ frame' = [frame EXCEPT ![t] =
            [calls |-> call_event_method(sid, m, handles[t][h]),
             dispatched |-> 1, invoked |-> 0, returned |-> 0,
             supplied |-> << [session_id |-> sid, phase |-> ph, method |-> m,
                              len |-> Deref(handles[t][h]).len,
                              bytes |-> Bytes(Deref(handles[t][h]))] >>,
             observed |-> << >>]]
    /\ last' = NoCall
    /\ UNCHANGED <<pool, heap, mem, handles, run, dropped, sizes>>

\* cb(session_id, method, data): control enters the handler.
HandlerEnter(t) ==
    /\ pc[t] = "call"
    /\ frame[t].calls # << >>
    /\ pc' = [pc EXCEPT ![t] = "handler"]
    /\ frame' = [frame EXCEPT ![t].invoked = @ + 1, ![t].observed = << >>]
    /\ last' = NoCall
    /\ UNCHANGED <<pool, heap, mem, handles, run, dropped, sizes>>

\* The handler reads its arguments, the descriptor and the bytes behind it.
\* The callback signature carries no phase.
HandlerRead(t) ==
    /\ pc[t] = "handler"
    /\ frame[t].observed = << >>
    /\ LET c == Head(frame[t].calls)
           b == Deref(c.data)
       IN frame' = [frame EXCEPT ![t].observed =
            << [session_id |-> c.session_id, phase |-> "absent",
                method |-> c.method, len |-> b.len, bytes |-> Bytes(b)] >>]
    /\ last' = NoCall
    /\ UNCHANGED <<pool, heap, mem, handles, pc, run, dropped, sizes>>

\* The handler returns into call_event_method.
HandlerReturn(t) ==
    /\ pc[t] = "handler"
    /\ frame[t].observed # << >>
    /\ pc' = [pc EXCEPT ![t] = "call"]
    /\ frame' = [frame EXCEPT ![t].calls = Tail(@), ![t].returned = @ + 1]
    /\ last' = NoCall
    /\ UNCHANGED <<pool, heap, mem, handles, run, dropped, sizes>>

\* call_event_method returns to the producer.
DispatchReturn(t) ==
    /\ pc[t] = "call"
    /\ frame[t].calls = << >>
    /\ pc' = [pc EXCEPT ![t] = "idle"]
    /\ frame' = [frame EXCEPT ![t].supplied = << >>, ![t].observed = << >>]
    /\ last' = NoCall
    /\ UNCHANGED <<pool, heap, mem, handles, run, dropped, sizes>>

\* ----------------------------------------------------------- specifications

\* Each producer thread serves one session and writes its own bytes: thread 1
\* session 7 with bytes from '0' on, thread 2 session 3 with bytes from 'a' on.
SessionOf(t) == IF t = 1 THEN 7 ELSE 3
SeedOf(t) == IF t = 1 THEN 48 ELSE 97

\* One caller using the pool: every sequence of init, acquire, release and
\* destroy calls, with up to MaxHandles descriptors in the caller's hands.
Next ==
    \/ \E n \in 0..MaxCap : PoolInit(n, TRUE, TRUE)
    \/ \E n \in 0..MaxCap, poolOk \in BOOLEAN, bufOk \in BOOLEAN :
            ~(poolOk /\ bufOk) /\ PoolInit(n, poolOk, bufOk)
    \/ \E h \in Handles, len \in {0, MaxStore} :
            Alloc(1, h, MaxStore, len, SeedOf(1))
    \/ \E h \in Handles : Get(1, h)
    \/ \E h \in Handles : Return(1, h)
    \/ Destroy

Spec == Init /\ [][Next]_vars

\* Two producer threads, one descriptor variable and one session each,
\* sharing a pool of capacity 1 (acquire and release under the callers' lock)
\* and dispatching.

NextDispatch ==
    \/ PoolInit(1, TRUE, TRUE)
    \/ \E t \in Threads, len \in {0, MaxStore} :
            Alloc(t, 1, MaxStore, len, SeedOf(t))
    \/ \E t \in Threads : Get(t, 1)
    \/ \E t \in Threads : Return(t, 1)
    \/ \E t \in Threads, m \in Methods, ph \in Phases :
            DispatchCall(t, 1, SessionOf(t), m, ph)
    \/ \E t \in Threads : HandlerEnter(t)
    \/ \E t \in Threads : HandlerRead(t)
    \/ \E t \in Threads : HandlerReturn(t)
    \/ \E t \in Threads : DispatchReturn(t)

SpecDispatch == Init /\ [][NextDispatch]_vars

\* One producer with one descriptor variable, whose storage sizes are size_t
\* quantities of up to MaxHigh times 2^32 bytes, describing them in
\* FfiBuffers, pooling and dispatching them.
NextAbi ==
    \/ PoolInit(1, TRUE, TRUE)
    \/ \E hi \in 0..MaxHigh, len \in {0, MaxStore} :
            AllocWide(1, 1, Size64(hi, IF hi = 0 THEN MaxStore ELSE 0),
                      Size64(0, len), SeedOf(1))
    \/ Get(1, 1)
    \/ Return(1, 1)
    \/ \E m \in Methods, ph \in Phases :
            DispatchCall(1, 1, SessionOf(1), m, ph)
    \/ HandlerEnter(1)
    \/ HandlerRead(1)
    \/ HandlerReturn(1)
    \/ DispatchReturn(1)

SpecAbi == Init /\ [][NextAbi]_vars

\* ------------------------------------------------------------------ claims

\* C1 (as claimed): while a caller keeps a slot it got from acquire, no step
\* changes the pointer, length or capacity it reads through that slot.
C1_CheckedOutSlotStable ==
    [][\A t \in Threads, h \in Handles :
          (handles[t][h].kind = "ref" /\ handles'[t][h] = handles[t][h])
              => Deref(handles[t][h])' = Deref(handles[t][h])]_vars

\* C2: the number of slots held stays between 0 and the capacity the pool
\* was initialised with.
C2_CountWithinCapacity ==
    /\ pool.count >= 0
    /\ pool.count <= pool.capacity

C2_Witness ==
    /\ last.op = "return"
    /\ pool.handle = "live"
    /\ pool.capacity = MaxCap
    /\ pool.count = pool.capacity
    /\ dropped # {}

\* C3: k <= N releases into a pool holding nothing, then acquires with no
\* other call between: the acquires return the released descriptors in
\* reverse order, and the one after them returns NULL.
C3_LifoLaw ==
    run.open =>
        \A j \in 1..Len(run.got) :
            run.got[j] = IF j <= Len(run.rel)
                         THEN run.rel[Len(run.rel) + 1 - j]
                         ELSE Indeterminate

C3_Witness ==
    /\ run.open
    /\ pool.capacity = 2
    /\ Len(run.rel) = 2
    /\ run.rel[1] # run.rel[2]
    /\ Len(run.got) = 3

\* C4 (as claimed): a release on a pool whose count equals its capacity
\* frees the released slot's byte storage.
C4_FullReleaseFreesStorage ==
    [][(last'.op = "return" /\ pool.handle = "live" /\ pool.count = pool.capacity)
          => last'.val.ptr \notin heap']_vars

\* C5 (as claimed): a release on a full pool leaves the pool unchanged, and
\* no later acquire returns the slot that release discarded.
C5_FullReleaseDiscards ==
    [][/\ (last'.op = "return" /\ pool.handle = "live"
              /\ pool.count = pool.capacity) => pool' = pool
       /\ (last'.op = "get" /\ last'.ret # NULL)
              => last'.val.ptr \notin dropped]_vars

\* C6: an acquire on a pool holding nothing returns NULL, allocates nothing
\* and leaves the pool as it was.
C6_EmptyAcquire ==
    [][(last'.op = "get" /\ pool.handle = "live" /\ pool.count = 0)
          => /\ last'.ret = NULL
             /\ pool' = pool
             /\ heap' = heap
             /\ mem' = mem
             /\ handles' = handles]_vars

C6_Witness ==
    /\ last.op = "get"
    /\ last.ret = NULL
    /\ pool.handle = "live"
    /\ pool.capacity > 0
    /\ pool.count = 0
    /\ heap # {}

\* C7 (as claimed): after destroy, no byte storage of a slot the pool held
\* remains allocated.
C7_DestroyFreesHeldSlots ==
    pool.handle = "freed" =>
        \A i \in SlotIdx : i < pool.count => pool.slots[i].ptr \notin heap

\* C8 (as claimed): init(N) returns NULL, or a pool of capacity N holding
\* nothing whose slot array is allocated.
C8_InitAllOrNothing ==
    (last.op = "init" /\ last.ret > 0) =>
        \/ pool.handle = "NULL"
        \/ /\ pool.handle = "live"
           /\ pool.buffers = "alloc"
           /\ pool.count = 0
           /\ pool.capacity = last.ret

\* C9 (as claimed): the handler observes the session_id, phase, method,
\* length and bytes the producer supplied.
C9_HandlerObservesSupplied ==
    \A t \in Threads :
        frame[t].observed # << >> => frame[t].observed = frame[t].supplied

\* C10: a dispatch call invokes the handler exactly once and the handler has
\* returned when the call returns; a thread has at most one call in flight.
C10_SynchronousDispatch ==
    \A t \in Threads :
        /\ frame[t].invoked - frame[t].returned =
                IF pc[t] = "handler" THEN 1 ELSE 0
        /\ pc[t] = "idle" =>
                /\ frame[t].calls = << >>
                /\ frame[t].invoked = frame[t].dispatched
                /\ frame[t].returned = frame[t].dispatched

C10_Witness ==
    /\ pc[1] = "idle"
    /\ frame[1].dispatched = 1
    /\ frame[1].returned = 1
    /\ pc[2] = "handler"


\* C11 (as claimed): while a thread is inside a dispatch call, no step of any
\* other party writes the descriptor it is dispatching or that descriptor's
\* bytes; in particular a release by the other thread leaves the array element
\* handed out by acquire as it was.
C11_DispatchedDescriptorUntouched ==
    [][\A t \in Threads :
          (/\ pc[t] \in {"call", "handler"}
           /\ pc'[t] \in {"call", "handler"}
           /\ frame[t].calls # << >>
           /\ frame'[t].calls = frame[t].calls)
          => LET d == Head(frame[t].calls).data
                 b == IF d.kind = "local" THEN d.buf ELSE pool.slots[d.idx]
                 c == IF d.kind = "local" THEN d.buf ELSE pool'.slots[d.idx]
             IN  /\ c = b
                 /\ mem'[b.ptr] = mem[b.ptr]]_vars

\* C12 (as claimed): with one pool shared by two threads whose acquires and
\* releases are mutually exclusive, the calls behave as in a sequential order:
\* a release made while count < capacity is kept (its descriptor becomes the
\* newest held slot and the older held slots stay), and no slot is handed out
\* by acquire to both threads at once.
C12_SharedPoolSequential ==
    [][/\ (last'.op = "return" /\ pool.count < pool.capacity)
            => /\ pool'.count = pool.count + 1
               /\ pool'.slots[pool.count] = last'.val
               /\ \A i \in SlotIdx :
                     i < pool.count => pool'.slots[i] = pool.slots[i]
       /\ \A g, h \in Handles :
             ~ /\ handles'[1][g].kind = "ref"
               /\ handles'[2][h].kind = "ref"
               /\ handles'[1][g].idx = handles'[2][h].idx]_vars

\* C13 (as claimed): when ffi_buffer_pool_free is the call made directly after
\* ffi_buffer_pool_init, with no acquire or release in between, every
\* allocation init made (the pool record and the array) has been freed, and
\* no other storage was allocated or freed.
C13_InitDestroyLeakFree ==
    [][(last.op = "init" /\ last'.op = "free")
          => /\ pool.handle = "live" => pool'.handle = "freed"
             /\ pool.buffers = "alloc" => pool'.buffers = "freed"
             /\ pool'.handle # "live"
             /\ pool'.buffers # "alloc"
             /\ heap' = heap]_vars

\* A pool of capacity MaxCap was initialised and destroyed, both of init's
\* allocations are freed, and no descriptor was ever created or released.
C13_Witness ==
    /\ last.op = "free"
    /\ pool.handle = "freed"
    /\ pool.buffers = "freed"
    /\ pool.capacity = MaxCap
    /\ pool.count = 0
    /\ heap = {}

\* C14 (as claimed): every descriptor held in the pool, returned by acquire
\* and still in the caller's hands, or being passed to a handler has
\* len <= capacity, and a non-null ptr whenever len > 0.
C14_DescriptorWellFormed ==
    LET WellFormed(b) == b.len <= b.capacity /\ (b.len > 0 => b.ptr # 0)
    IN  /\ pool.handle = "live" =>
              \A i \in SlotIdx : i < pool.count => WellFormed(pool.slots[i])
        /\ \A t \in Threads, h \in Handles :
              (handles[t][h].kind = "ref" /\ pool.handle = "live")
                  => WellFormed(Deref(handles[t][h]))
        /\ \A t \in Threads :
              (pc[t] = "handler" /\ frame[t].calls # << >>)
                  => WellFormed(Deref(Head(frame[t].calls).data))

\* C15 (as claimed): the descriptor delivers byte counts of the full 64-bit
\* range unchanged: the capacity the handler reads in the descriptor it is
\* given is the byte count the producer's storage has, not that count modulo
\* 2^32.
C15_SizesDeliveredUntruncated ==
    \A t \in Threads :
        (pc[t] = "handler" /\ frame[t].calls # << >>)
            => LET b == Deref(Head(frame[t].calls).data)
               IN  Size64(0, b.capacity) = sizes[b.ptr]

C17_PhasePassedUnchecked ==
    \A t \in Threads :
        (pc[t] = "handler" /\ frame[t].observed # << >>)
            => /\ frame[t].invoked = frame[t].dispatched
               /\ frame[t].observed[1].session_id = SessionOf(t)
               /\ frame[t].observed[1].phase \in Phases
               /\ frame[t].observed[1].phase = frame[t].supplied[1].phase

\* C18: dispatch is a pure pass-through. Every step of a dispatch call (the
\* call, the handler's entry, its reads, its return, the call's return)
\* leaves every descriptor, the payload bytes, the pool (count, capacity,
\* held slots) and the set of allocated storage as they were, and the
\* descriptor pointer handed to the handler is the producer's own, not a copy.
C18_DispatchPassThrough ==
    [][(pc' # pc \/ frame' # frame)
          => /\ UNCHANGED <<pool, heap, mem, handles, sizes>>
             /\ \A t \in Threads :
                   (pc[t] = "idle" /\ pc'[t] = "call")
                      => /\ Len(frame'[t].calls) = 1
                         /\ \E h \in Handles :
                               /\ handles[t][h].kind # "none"
                               /\ frame'[t].calls[1].data = handles[t][h]]_vars

\* A descriptor acquired from the pool has been dispatched and the call has
\* returned, while the pool holds a slot.
C18_Witness ==
    /\ pc[1] = "idle"
    /\ frame[1].dispatched = 1
    /\ frame[1].returned = 1
    /\ handles[1][1].kind = "ref"
    /\ pool.count = 1

\* C19 (as claimed): no double hand-out. With a caller that releases each
\* descriptor it has at most once, a slot is never in the caller's hands
\* twice at the same time (a released slot is returned by at most one acquire
\* until it is released again), and what an acquire returns is a descriptor
\* that was released to the pool before and not discarded.
C19_NoDoubleHandOut ==
    /\ pool.handle = "live" =>
          \A g, h \in Handles :
              (/\ g # h
               /\ handles[1][g].kind # "none"
               /\ handles[1][h].kind # "none")
                  => Deref(handles[1][g]).ptr # Deref(handles[1][h]).ptr
    /\ (last.op = "get" /\ last.ret # NULL)
          => /\ last.val.ptr \in heap
             /\ last.val.ptr \notin dropped

\* C20: in every reachable state of a pool initialised with capacity 0, count
\* is 0 and no array element was ever written (nor its address computed):
\* every release has discarded its descriptor and stored nothing, every
\* acquire has returned NULL, and no store through the array pointer has
\* taken place, whether or not malloc(0) returned an array.
C20_ZeroCapacityPool ==
    (pool.handle \notin {"uninit", "NULL"} /\ pool.capacity = 0)
        => /\ pool.count = 0
           /\ pool.handle \in {"live", "freed"}
           /\ \A i \in SlotIdx : pool.slots[i] = Indeterminate
           /\ last.op = "get" => (last.ret = NULL /\ last.val = Indeterminate)
           /\ last.op = "return"
                  => (last.ret = NULL /\ last.val.ptr \in dropped)
           /\ \A h \in Handles : handles[1][h].kind # "ref"

\* A release has just been discarded by a capacity-0 pool whose array
\* pointer is NULL.
C20_Witness ==
    /\ pool.handle = "live"
    /\ pool.capacity = 0
    /\ pool.buffers = "NULL"
    /\ last.op = "return"
    /\ dropped # {}

====
